---- MODULE Spec2Model ----
(***************************************************************************)
(* Request gateway of the AI Assistant backend: the schema validator       *)
(* (backend/middleware/validation.js), the API-key authenticator and the   *)
(* per-key sliding-window rate limiter (backend/middleware/auth.js), and   *)
(* the way index.js and the route files mount them.                        *)
(*                                                                         *)
(* JavaScript values are tagged records [t |-> <typeof-like tag>, ...].    *)
(* Strings are sequences of one-character strings, so that trim, replace,  *)
(* length and substring are computed and not assumed.                      *)
(***************************************************************************)
EXTENDS Integers, Sequences, FiniteSets, TLC

\* ------------------------------------------------------------------------
\* Bounds of the model
\* ------------------------------------------------------------------------
MaxKeyLen == 9      \* longest run of key characters in a presented credential
MaxCalls == 4       \* limiter calls recorded in one behaviour
MaxTicks == 4       \* clock advances in one behaviour
MaxStrLen == 2      \* longest string value of a validated body field
MaxRuleLen == 2     \* largest minLength/maxLength/minItems/maxItems of a rule

\* ------------------------------------------------------------------------
\* JavaScript values
\* ------------------------------------------------------------------------
Undefined == [t |-> "undefined"]
Null == [t |-> "null"]
Str(s) == [t |-> "string", s |-> s]
Num(n) == [t |-> "number", n |-> n]
Bool(b) == [t |-> "boolean", b |-> b]
Arr(len) == [t |-> "array", len |-> len]
Obj(f) == [t |-> "object", f |-> f]

\* the empty mapping, {} in the source
EmptyMap == [k \in {} |-> Undefined]

\* numbers are named by their literal; these are the non-finite ones
NonFinite == {"NaN", "Infinity", "-Infinity"}
Fractional == {"1.5"}

\* typeof value
typeof(v) ==
    CASE v.t = "undefined" -> "undefined"
      [] v.t = "string" -> "string"
      [] v.t = "number" -> "number"
      [] v.t = "boolean" -> "boolean"
      [] OTHER -> "object"

\* ToBoolean(value), the test behind `if (value)`, `!value`, `a && b`, `a || b`
Truthy(v) ==
    CASE v.t = "undefined" -> FALSE
      [] v.t = "null" -> FALSE
      [] v.t = "string" -> Len(v.s) > 0
      [] v.t = "number" -> v.n \notin {"0", "NaN"}
      [] v.t = "boolean" -> v.b
      [] OTHER -> TRUE

\* object[key] on an object value: undefined when the key is not there
Get(o, k) == IF k \in DOMAIN o.f THEN o.f[k] ELSE Undefined

\* reading a property of undefined or null throws a TypeError
Nullish(v) == v.t \in {"undefined", "null"}

\* ------------------------------------------------------------------------
\* String primitives
\* ------------------------------------------------------------------------
Whitespace == {" ", "\t"}

Rep(c, n) == [i \in 1..n |-> c]

RECURSIVE trimStart(_)
trimStart(s) ==
    IF Len(s) > 0 /\ Head(s) \in Whitespace THEN trimStart(Tail(s)) ELSE s

RECURSIVE trimEnd(_)
trimEnd(s) ==
    IF Len(s) > 0 /\ s[Len(s)] \in Whitespace
    THEN trimEnd(SubSeq(s, 1, Len(s) - 1))
    ELSE s

\* String.prototype.trim
trim(s) == trimEnd(trimStart(s))

OccursAt(s, pat, i) ==
    /\ i + Len(pat) - 1 <= Len(s)
    /\ SubSeq(s, i, i + Len(pat) - 1) = pat

\* String.prototype.indexOf, 1-based, 0 when there is no occurrence
indexOf(s, pat) ==
    IF \E i \in 1..Len(s) : OccursAt(s, pat, i)
    THEN CHOOSE i \in 1..Len(s) :
            OccursAt(s, pat, i) /\ \A j \in 1..(i - 1) : ~OccursAt(s, pat, j)
    ELSE 0

\* String.prototype.replace with a string pattern: the first occurrence only
replace(s, pat, rep) ==
    LET i == indexOf(s, pat) IN
    IF i = 0 THEN s
    ELSE SubSeq(s, 1, i - 1) \o rep \o SubSeq(s, i + Len(pat), Len(s))

\* String.prototype.substring(0, n)
substring0(s, n) == SubSeq(s, 1, IF Len(s) < n THEN Len(s) ELSE n)

startsWith(s, pat) == OccursAt(s, pat, 1)

Bearer == <<"B", "e", "a", "r", "e", "r", " ">>
Ellipsis == <<".", ".", ".">>

\* ------------------------------------------------------------------------
\* State
\* ------------------------------------------------------------------------
VARIABLES
    env,        \* process.env: NODE_ENV and API_KEY
    req,        \* the request in hand: headers, query, body, ip
    auth,       \* req.auth
    schema,     \* the schema a validateRequest middleware was created with
    res,        \* responses sent for the request in hand, in order
    nextCalls,  \* number of times next() was called by the stage(s) run
    thrown,     \* an exception escaped the stage that ran
    log,        \* entries written to the logger, in order
    resolved,   \* last result of getApiKeyFromRequest
    pc,         \* position of the request in hand
    cfg,        \* arguments of createApiKeyRateLimit: windowMs, maxRequests
    requests,   \* the limiter's Map: key -> list of timestamps
    now,        \* Date.now()
    calls,      \* limiter calls made so far: key, time, admitted
    route,      \* route the request in hand is for
    trace,      \* stages that ran for the request in hand, in order
    external    \* external-service calls made for the request in hand

vars == <<env, req, auth, schema, res, nextCalls, thrown, log, resolved, pc,
          cfg, requests, now, calls, route, trace, external>>

reqVars == <<env, req, auth, schema, res, nextCalls, thrown, log, resolved, pc>>
limiterVars == <<cfg, requests, now, calls>>
pipelineVars == <<route, trace, external>>

\* ------------------------------------------------------------------------
\* Outcome of one middleware invocation
\* ------------------------------------------------------------------------
NoDetails == <<>>

Response(status, error, message) ==
    [status |-> status, error |-> error, message |-> message,
     retryAfter |-> 0, details |-> NoDetails]

\* next() was called
CallNext(a, l) == [next |-> 1, sent |-> <<>>, threw |-> FALSE, auth |-> a, log |-> l]
\* res.status(..).json(..) was called
Send(r, a, l) == [next |-> 0, sent |-> <<r>>, threw |-> FALSE, auth |-> a, log |-> l]
\* an exception left the function
Throw(a, l) == [next |-> 0, sent |-> <<>>, threw |-> TRUE, auth |-> a, log |-> l]

LogEntry(level, msg, key) == [level |-> level, msg |-> msg, key |-> key]

\* ------------------------------------------------------------------------
\* backend/middleware/auth.js
\* ------------------------------------------------------------------------
Identity(apiKey, authenticated, timestamp) ==
    [t |-> "object", apiKey |-> apiKey, authenticated |-> authenticated,
     timestamp |-> timestamp]

\* req.headers['authorization']?.replace('Bearer ', '')
stripBearer(h) == IF Nullish(h) THEN h ELSE Str(replace(h.s, Bearer, <<>>))

locations(r) ==
    << r.headers.xApiKey,
       stripBearer(r.headers.authorization),
       r.headers.apiKey,
       Get(r.query, "apiKey"),
       Get(r.body, "apiKey") >>

\* key && typeof key === 'string' && key.trim().length > 0
qualifies(key) == Truthy(key) /\ typeof(key) = "string" /\ Len(trim(key.s)) > 0

Value(v) == [throws |-> FALSE, value |-> v]
Raise == [throws |-> TRUE, value |-> Undefined]

getApiKeyFromRequest(r) ==
    IF Nullish(r.query) \/ Nullish(r.body) THEN Raise
    ELSE LET loc == locations(r)
             hits == {i \in 1..Len(loc) : qualifies(loc[i])}
             first == CHOOSE i \in hits : \A j \in hits : i <= j
         IN IF hits = {} THEN Value(Null) ELSE Value(Str(trim(loc[first].s)))

\* faulty variant: every mode but production counts as development
isDevelopment_notProduction(e) == e.NODE_ENV # "production"

\* process.env.NODE_ENV === 'development'
isDevelopment(e) == e.NODE_ENV = "development"

\* faulty variant: the development fallback is consulted before the configured key
isValidApiKey_devFirst(e, apiKey) ==
    IF ~Truthy(apiKey) \/ typeof(apiKey) # "string" THEN FALSE
    ELSE IF isDevelopment(e) THEN Len(apiKey.s) >= 8
    ELSE IF Truthy(e.API_KEY) THEN apiKey = e.API_KEY
    ELSE FALSE

isValidApiKey(e, apiKey) ==
    IF ~Truthy(apiKey) \/ typeof(apiKey) # "string" THEN FALSE
    ELSE IF Truthy(e.API_KEY) THEN apiKey = e.API_KEY
    ELSE IF isDevelopment(e) THEN Len(apiKey.s) >= 8
    ELSE FALSE

keyPrefix(apiKey) == Str(substring0(apiKey.s, 8) \o Ellipsis)

Timestamp(t) == Num(t)

\* faulty variant: development mode skips authentication whatever is configured
skipAuthentication_anyKey(e) == isDevelopment(e)

\* process.env.NODE_ENV === 'development' && !process.env.API_KEY
skipAuthentication(e) == isDevelopment(e) /\ ~Truthy(e.API_KEY)

SkipLog == LogEntry("debug", "Skipping authentication in development mode", Undefined)

\* faulty variant: the message of the rejection tells why the key is not accepted
authenticateRequest_explains(e, r, a, t) ==
    IF skipAuthentication(e)
    THEN CallNext(a, <<SkipLog>>)
    ELSE LET k == getApiKeyFromRequest(r) IN
         IF k.throws
         THEN Send(Response(500, "Authentication error", "Internal authentication error"),
                   a, <<LogEntry("error", "Authentication middleware error:", Undefined)>>)
         ELSE IF ~Truthy(k.value)
         THEN Send(Response(401, "Authentication required", "API key is required for this endpoint"),
                   a, <<LogEntry("warn", "Authentication failed: No API key provided", Undefined)>>)
         ELSE IF ~isValidApiKey(e, k.value)
         THEN Send(Response(401, "Invalid API key",
                            IF Truthy(e.API_KEY) THEN "The key does not match"
                            ELSE "No API key is configured"),
                   a, <<LogEntry("warn", "Authentication failed: Invalid API key", keyPrefix(k.value))>>)
         ELSE CallNext(Identity(k.value, TRUE, Timestamp(t)),
                       <<LogEntry("debug", "Authentication successful", keyPrefix(k.value))>>)

authenticateRequest(e, r, a, t) ==
    IF skipAuthentication(e)
    THEN CallNext(a, <<SkipLog>>)
    ELSE LET k == getApiKeyFromRequest(r) IN
         IF k.throws
         THEN Send(Response(500, "Authentication error", "Internal authentication error"),
                   a, <<LogEntry("error", "Authentication middleware error:", Undefined)>>)
         ELSE IF ~Truthy(k.value)
         THEN Send(Response(401, "Authentication required", "API key is required for this endpoint"),
                   a, <<LogEntry("warn", "Authentication failed: No API key provided", Undefined)>>)
         ELSE IF ~isValidApiKey(e, k.value)
         THEN Send(Response(401, "Invalid API key", "The provided API key is invalid"),
                   a, <<LogEntry("warn", "Authentication failed: Invalid API key", keyPrefix(k.value))>>)
         ELSE CallNext(Identity(k.value, TRUE, Timestamp(t)),
                       <<LogEntry("debug", "Authentication successful", keyPrefix(k.value))>>)

\* faulty variant: a candidate that is not valid is rejected as by the hard authenticator
optionalAuthenticate_rejects(e, r, a, t) ==
    LET k == getApiKeyFromRequest(r) IN
    IF k.throws
    THEN CallNext(Identity(Undefined, FALSE, Undefined),
                  <<LogEntry("error", "Optional authentication middleware error:", Undefined)>>)
    ELSE IF Truthy(k.value) /\ isValidApiKey(e, k.value)
    THEN CallNext(Identity(k.value, TRUE, Timestamp(t)), <<>>)
    ELSE IF Truthy(k.value)
    THEN Send(Response(401, "Invalid API key", "The provided API key is invalid"), a, <<>>)
    ELSE CallNext(Identity(Undefined, FALSE, Timestamp(t)), <<>>)

optionalAuthenticate(e, r, a, t) ==
    LET k == getApiKeyFromRequest(r) IN
    IF k.throws
    THEN CallNext(Identity(Undefined, FALSE, Undefined),
                  <<LogEntry("error", "Optional authentication middleware error:", Undefined)>>)
    ELSE IF Truthy(k.value) /\ isValidApiKey(e, k.value)
    THEN CallNext(Identity(k.value, TRUE, Timestamp(t)), <<>>)
    ELSE CallNext(Identity(Undefined, FALSE, Timestamp(t)), <<>>)

\* ---- createApiKeyRateLimit ----------------------------------------------
TickMs == 500       \* granularity of the modelled clock, in milliseconds

\* faulty variant: the identity is ignored, every request is counted by origin
limiterKey_ipOnly(r, a) == r.ip

\* req.auth?.apiKey || req.ip
limiterKey(r, a) == IF ~Nullish(a) /\ Truthy(a.apiKey) THEN a.apiKey ELSE r.ip

\* faulty variant: a timestamp exactly windowMs old is still counted
inWindow_inclusive(ts, windowStart) == ts >= windowStart

\* ts => ts > windowStart
inWindow(ts, windowStart) == ts > windowStart

\* faulty variant: nothing is filtered out
filter_keepAll(timestamps, windowStart) == timestamps

filter(timestamps, windowStart) ==
    SelectSeq(timestamps, LAMBDA ts : inWindow(ts, windowStart))

\* faulty variant: an emptied list is stored back instead of being deleted
cleanUp_keepEmpty(reqs, windowStart) ==
    [k \in DOMAIN reqs |-> filter(reqs[k], windowStart)]

\* the "clean up old entries" loop over requests.entries()
cleanUp(reqs, windowStart) ==
    LET kept == {k \in DOMAIN reqs : Len(filter(reqs[k], windowStart)) # 0}
    IN [k \in kept |-> filter(reqs[k], windowStart)]

\* faulty variant: the stored list of the key is never read
getOrEmpty_forgetful(reqs, k) == <<>>

\* requests.get(apiKey) || []
getOrEmpty(reqs, k) == IF k \in DOMAIN reqs THEN reqs[k] ELSE <<>>

\* faulty variant: the write keeps the newest timestamp only, earlier ones are lost
mapSet_overwrite(reqs, k, list) ==
    [x \in DOMAIN reqs \cup {k} |-> IF x = k THEN <<list[Len(list)]>> ELSE reqs[x]]

\* requests.set(key, list)
mapSet(reqs, k, list) ==
    [x \in DOMAIN reqs \cup {k} |-> IF x = k THEN list ELSE reqs[x]]

\* faulty variant: the limit is compared with > and one request too many passes
overLimit_offByOne(recentRequests, c) == Len(recentRequests) > c.maxRequests

\* recentRequests.length >= maxRequests
overLimit(recentRequests, c) == Len(recentRequests) >= c.maxRequests

\* faulty variant: the quotient is rounded down
ceilSeconds_floor(ms) == ms \div 1000

\* Math.ceil(windowMs / 1000) and Math.round(windowMs / 1000)
ceilSeconds(ms) == (ms + 999) \div 1000
roundSeconds(ms) == (ms + 500) \div 1000

RateLimitResponse(c) ==
    [status |-> 429, error |-> "Rate limit exceeded",
     message |-> "Too many requests", limit |-> c.maxRequests,
     per |-> roundSeconds(c.windowMs),
     retryAfter |-> ceilSeconds(c.windowMs), details |-> NoDetails]

\* faulty variant: the limit is applied to the busiest key of the map, not to the caller's
rateLimit_sharedBucket(c, reqs, r, a, t) ==
    LET apiKey == limiterKey(r, a)
        windowStart == t - c.windowMs
        cleaned == cleanUp(reqs, windowStart)
        recentRequests == filter(getOrEmpty(cleaned, apiKey), windowStart)
        busiest == IF DOMAIN cleaned = {} THEN <<>>
                   ELSE cleaned[CHOOSE x \in DOMAIN cleaned :
                                   \A y \in DOMAIN cleaned : Len(cleaned[y]) <= Len(cleaned[x])]
    IN IF overLimit(busiest, c)
       THEN IF typeof(apiKey) # "string"
            THEN [requests |-> cleaned, out |-> Throw(a, <<>>)]
            ELSE [requests |-> cleaned,
                  out |-> Send(RateLimitResponse(c), a,
                               <<LogEntry("warn", "Rate limit exceeded", keyPrefix(apiKey))>>)]
       ELSE [requests |-> mapSet(cleaned, apiKey, Append(recentRequests, t)),
             out |-> CallNext(a, <<>>)]

\* faulty variant: a rejected call is stored like an admitted one
rateLimit_countsRejected(c, reqs, r, a, t) ==
    LET apiKey == limiterKey(r, a)
        windowStart == t - c.windowMs
        cleaned == cleanUp(reqs, windowStart)
        recentRequests == filter(getOrEmpty(cleaned, apiKey), windowStart)
        stored == mapSet(cleaned, apiKey, Append(recentRequests, t))
    IN IF overLimit(recentRequests, c)
       THEN IF typeof(apiKey) # "string"
            THEN [requests |-> stored, out |-> Throw(a, <<>>)]
            ELSE [requests |-> stored,
                  out |-> Send(RateLimitResponse(c), a,
                               <<LogEntry("warn", "Rate limit exceeded", keyPrefix(apiKey))>>)]
       ELSE [requests |-> stored, out |-> CallNext(a, <<>>)]

\* the middleware returned by createApiKeyRateLimit(windowMs, maxRequests):
\* the outcome of the call and the Map it leaves behind
rateLimit(c, reqs, r, a, t) ==
    LET apiKey == limiterKey(r, a)
        windowStart == t - c.windowMs
        cleaned == cleanUp(reqs, windowStart)
        recentRequests == filter(getOrEmpty(cleaned, apiKey), windowStart)
    IN IF overLimit(recentRequests, c)
       THEN IF typeof(apiKey) # "string"
            THEN [requests |-> cleaned, out |-> Throw(a, <<>>)]
            ELSE [requests |-> cleaned,
                  out |-> Send(RateLimitResponse(c), a,
                               <<LogEntry("warn", "Rate limit exceeded", keyPrefix(apiKey))>>)]
       ELSE [requests |-> mapSet(cleaned, apiKey, Append(recentRequests, t)),
             out |-> CallNext(a, <<>>)]

\* ------------------------------------------------------------------------
\* backend/middleware/validation.js
\* ------------------------------------------------------------------------
\* A numeric constraint of a rule (minLength, maxLength, minItems, maxItems):
\* not given, or given with a value.
NoLimit == [given |-> FALSE, n |-> 0]
Limit(n) == [given |-> TRUE, n |-> n]

\* `fieldSchema.minLength && ...`: undefined and 0 are both falsy
limitTruthy(l) == l.given /\ l.n # 0

\* requiredFields of a rule: not given, a list of names, or a value that
\* cannot be iterated by for...of (a number, a plain object)
NoSubfields == [kind |-> "absent", names |-> <<>>]
Subfields(names) == [kind |-> "list", names |-> names]
NonIterable == [kind |-> "noniterable", names |-> <<>>]

Rule(required, type) ==
    [required |-> required, type |-> type,
     minLength |-> NoLimit, maxLength |-> NoLimit, pattern |-> "", format |-> "",
     minItems |-> NoLimit, maxItems |-> NoLimit, requiredFields |-> NoSubfields]

Field(name, rule) == [name |-> name, rule |-> rule]

\* Number.isInteger(value)
isInteger(v) == v.t = "number" /\ v.n \notin NonFinite /\ v.n \notin Fractional

\* isNaN(value) for a value whose typeof is number
isNaN(v) == v.n = "NaN"

validateType(value, expectedType) ==
    CASE expectedType = "string" -> typeof(value) = "string"
      [] expectedType = "number" -> typeof(value) = "number" /\ ~isNaN(value)
      [] expectedType = "boolean" -> typeof(value) = "boolean"
      [] expectedType = "array" -> value.t = "array"
      [] expectedType = "object" ->
            typeof(value) = "object" /\ value.t # "null" /\ value.t # "array"
      [] expectedType = "integer" -> isInteger(value)
      [] expectedType = "float" -> typeof(value) = "number" /\ ~isNaN(value)
      [] OTHER -> TRUE

\* new URL(string) succeeds.  Leading and trailing spaces are stripped; the
\* rest must begin with a scheme (a letter, then letters, digits, + - .)
\* followed by ":".  Every scheme of the modelled alphabet is non-special,
\* so whatever follows the colon is accepted.
Alpha == {"a", "b"}
SchemeChars == Alpha \cup {"."}

isValidUrl(s) ==
    LET u == trim(s) IN
    \E i \in 2..Len(u) :
        /\ u[i] = ":"
        /\ u[1] \in Alpha
        /\ \A j \in 2..(i - 1) : u[j] \in SchemeChars

\* /^[^\s@]+@[^\s@]+\.[^\s@]+$/.test(email)
isValidEmail(s) ==
    /\ \A i \in 1..Len(s) : s[i] \notin Whitespace
    /\ \E p \in 2..Len(s) :
        /\ s[p] = "@"
        /\ \A i \in 1..Len(s) : s[i] = "@" => i = p
        /\ \E q \in (p + 2)..(Len(s) - 1) : s[q] = "."

\* Regular-expression sources used by the modelled schemas.
PatternAs == "^a+$"
PatternLanguage == "^[a-z]{2,3}(-[A-Z]{2})?$"
PatternMalformed == "("

Lower == {"a", "b", "e", "n", "g"}
Upper == {"U", "S"}

\* new RegExp(pattern) throws a SyntaxError
regexThrows(pattern) == pattern = PatternMalformed

\* new RegExp(pattern).test(s)
regexTest(pattern, s) ==
    CASE pattern = PatternAs -> Len(s) >= 1 /\ \A i \in 1..Len(s) : s[i] = "a"
      [] pattern = PatternLanguage ->
            \/ Len(s) \in {2, 3} /\ \A i \in 1..Len(s) : s[i] \in Lower
            \/ /\ Len(s) \in {5, 6}
               /\ \A i \in 1..(Len(s) - 3) : s[i] \in Lower
               /\ s[Len(s) - 2] = "-"
               /\ s[Len(s) - 1] \in Upper /\ s[Len(s)] \in Upper
      [] OTHER -> FALSE

\* keys every plain object inherits from Object.prototype
PrototypeKeys == {"constructor", "toString", "hasOwnProperty"}

\* requiredField in value
hasProperty(k, o) == k \in DOMAIN o.f \/ k \in PrototypeKeys

Err(field, code) == [field |-> field, code |-> code]

Errors(list) == [throws |-> FALSE, errors |-> list]
Failure == [throws |-> TRUE, errors |-> <<>>]

If(c, list) == IF c THEN list ELSE <<>>

\* faulty variant: the empty string counts as present for a required field
missingRequired_nullishOnly(value) == Nullish(value)

\* value === undefined || value === null || value === ''
missingRequired(value) == Nullish(value) \/ value = Str(<<>>)

\* fieldSchema.maxLength && value.length > fieldSchema.maxLength
exceeds(len, l) == limitTruthy(l) /\ len > l.n

\* fieldSchema.minLength && value.length < fieldSchema.minLength
below(len, l) == limitTruthy(l) /\ len < l.n

\* faulty variant: the string checks stop at the first violation they find
stringChecks_firstOnly(name, rule, value) ==
    LET all == If(below(Len(value.s), rule.minLength), <<Err(name, "MIN_LENGTH")>>)
               \o If(exceeds(Len(value.s), rule.maxLength), <<Err(name, "MAX_LENGTH")>>)
               \o If(rule.pattern # "" /\ ~regexTest(rule.pattern, value.s),
                     <<Err(name, "INVALID_PATTERN")>>)
               \o If(rule.format = "url" /\ ~isValidUrl(value.s), <<Err(name, "INVALID_URL")>>)
               \o If(rule.format = "email" /\ ~isValidEmail(value.s), <<Err(name, "INVALID_EMAIL")>>)
    IN IF Len(all) > 1 THEN <<all[1]>> ELSE all

stringChecks(name, rule, value) ==
    If(below(Len(value.s), rule.minLength), <<Err(name, "MIN_LENGTH")>>)
    \o If(exceeds(Len(value.s), rule.maxLength), <<Err(name, "MAX_LENGTH")>>)
    \o If(rule.pattern # "" /\ ~regexTest(rule.pattern, value.s),
          <<Err(name, "INVALID_PATTERN")>>)
    \o If(rule.format = "url" /\ ~isValidUrl(value.s), <<Err(name, "INVALID_URL")>>)
    \o If(rule.format = "email" /\ ~isValidEmail(value.s), <<Err(name, "INVALID_EMAIL")>>)

arrayChecks(name, rule, value) ==
    If(below(value.len, rule.minItems), <<Err(name, "MIN_ITEMS")>>)
    \o If(exceeds(value.len, rule.maxItems), <<Err(name, "MAX_ITEMS")>>)

objectChecks(name, rule, value) ==
    LET names == rule.requiredFields.names
        lacking == SelectSeq(names, LAMBDA k : ~hasProperty(k, value))
    IN [i \in 1..Len(lacking) |-> Err(name \o "." \o lacking[i], "REQUIRED_OBJECT_FIELD")]

\* faulty variant: no `continue` after INVALID_TYPE, the object checks still run
checkField_noSkipAfterType(name, rule, value) ==
    IF rule.required /\ missingRequired(value)
    THEN Errors(<<Err(name, "REQUIRED_FIELD")>>)
    ELSE IF ~rule.required /\ Nullish(value) THEN Errors(<<>>)
    ELSE LET mismatch == rule.type # "" /\ ~validateType(value, rule.type)
             isString == rule.type = "string" /\ typeof(value) = "string"
             isArray == rule.type = "array" /\ value.t = "array"
             isObject == rule.type = "object" /\ typeof(value) = "object" /\ value.t # "null"
             names == rule.requiredFields.names
         IN IF isString /\ rule.pattern # "" /\ regexThrows(rule.pattern) THEN Failure
            ELSE IF isObject /\ rule.requiredFields.kind = "noniterable" THEN Failure
            ELSE Errors(If(mismatch, <<Err(name, "INVALID_TYPE")>>)
                        \o If(isString, stringChecks(name, rule, value))
                        \o If(isArray, arrayChecks(name, rule, value))
                        \o If(isObject /\ value.t = "object", objectChecks(name, rule, value))
                        \o If(isObject /\ value.t = "array",
                              [i \in 1..Len(names) |->
                                  Err(name \o "." \o names[i], "REQUIRED_OBJECT_FIELD")]))

\* faulty variant: no `continue` after REQUIRED_FIELD, the type check still runs
checkField_noContinue(name, rule, value) ==
    IF rule.required /\ missingRequired(value)
    THEN Errors(<<Err(name, "REQUIRED_FIELD")>>
                \o If(rule.type # "" /\ ~validateType(value, rule.type),
                      <<Err(name, "INVALID_TYPE")>>))
    ELSE IF ~rule.required /\ Nullish(value) THEN Errors(<<>>)
    ELSE IF rule.type # "" /\ ~validateType(value, rule.type)
    THEN Errors(<<Err(name, "INVALID_TYPE")>>)
    ELSE LET isString == rule.type = "string" /\ typeof(value) = "string"
             isArray == rule.type = "array" /\ value.t = "array"
             isObject == rule.type = "object" /\ typeof(value) = "object" /\ value.t # "null"
         IN IF isString /\ rule.pattern # "" /\ regexThrows(rule.pattern) THEN Failure
            ELSE IF isObject /\ rule.requiredFields.kind = "noniterable" THEN Failure
            ELSE Errors(If(isString, stringChecks(name, rule, value))
                        \o If(isArray, arrayChecks(name, rule, value))
                        \o If(isObject, objectChecks(name, rule, value)))

\* one iteration of the loop over Object.entries(schema)
checkField(name, rule, value) ==
    IF rule.required /\ missingRequired(value)
    THEN Errors(<<Err(name, "REQUIRED_FIELD")>>)
    ELSE IF ~rule.required /\ Nullish(value) THEN Errors(<<>>)
    ELSE IF rule.type # "" /\ ~validateType(value, rule.type)
    THEN Errors(<<Err(name, "INVALID_TYPE")>>)
    ELSE LET isString == rule.type = "string" /\ typeof(value) = "string"
             isArray == rule.type = "array" /\ value.t = "array"
             isObject == rule.type = "object" /\ typeof(value) = "object" /\ value.t # "null"
         IN IF isString /\ rule.pattern # "" /\ regexThrows(rule.pattern) THEN Failure
            ELSE IF isObject /\ rule.requiredFields.kind = "noniterable" THEN Failure
            ELSE Errors(If(isString, stringChecks(name, rule, value))
                        \o If(isArray, arrayChecks(name, rule, value))
                        \o If(isObject, objectChecks(name, rule, value)))

\* the loop of validateRequest: the accumulated errors, or the exception
RECURSIVE collectErrors(_, _)
collectErrors(sch, body) ==
    IF Len(sch) = 0 THEN Errors(<<>>)
    ELSE IF Nullish(body) THEN Failure
    ELSE LET head == checkField(sch[1].name, sch[1].rule, Get(body, sch[1].name))
             rest == collectErrors(Tail(sch), body)
         IN IF head.throws \/ rest.throws THEN Failure
            ELSE Errors(head.errors \o rest.errors)

SensitiveFields == {"apiKey", "password", "token", "secret", "key"}
Redacted == Str(<<"[", "R", "E", "D", "A", "C", "T", "E", "D", "]">>)

sanitizeRequestBody(body) ==
    IF Nullish(body) THEN Obj(EmptyMap)
    ELSE Obj([k \in DOMAIN body.f |->
                IF k \in SensitiveFields /\ Truthy(body.f[k]) THEN Redacted
                ELSE body.f[k]])

BodyLogEntry(level, msg, body) == [level |-> level, msg |-> msg, key |-> Undefined, body |-> body]

ValidationResponse(errors) ==
    [status |-> 400, error |-> "Validation failed",
     message |-> "Request validation failed", retryAfter |-> 0, details |-> errors]

\* faulty variant: no try/catch around the loop, the exception leaves the middleware
validateRequest_noCatch(sch, r, a) ==
    LET result == collectErrors(sch, r.body) IN
    IF result.throws THEN Throw(a, <<>>)
    ELSE IF Len(result.errors) > 0
    THEN Send(ValidationResponse(result.errors), a,
              <<BodyLogEntry("warn", "Validation failed", sanitizeRequestBody(r.body))>>)
    ELSE CallNext(a, <<>>)

\* the middleware returned by validateRequest(schema)
validateRequest(sch, r, a) ==
    LET result == collectErrors(sch, r.body) IN
    IF result.throws
    THEN Send(Response(500, "Validation error", "Internal validation error"), a,
              <<BodyLogEntry("error", "Validation middleware error:", sanitizeRequestBody(r.body))>>)
    ELSE IF Len(result.errors) > 0
    THEN Send(ValidationResponse(result.errors), a,
              <<BodyLogEntry("warn", "Validation failed", sanitizeRequestBody(r.body))>>)
    ELSE CallNext(a, <<>>)

\* ------------------------------------------------------------------------
\* Resting values of the variables a specification does not use
\* ------------------------------------------------------------------------
NoHeaders == [xApiKey |-> Undefined, authorization |-> Undefined, apiKey |-> Undefined]
Request(headers, query, body, ip) ==
    [headers |-> headers, query |-> query, body |-> body, ip |-> ip]
EmptyObject == Obj(EmptyMap)
NoRequest == Request(NoHeaders, EmptyObject, EmptyObject, Undefined)
NoEnv == [NODE_ENV |-> "", API_KEY |-> Undefined]
NoCfg == [windowMs |-> 0, maxRequests |-> 0]

RequestAtRest ==
    /\ env = NoEnv /\ req = NoRequest /\ auth = Undefined /\ schema = <<>>
    /\ res = <<>> /\ nextCalls = 0 /\ thrown = FALSE /\ log = <<>>
    /\ resolved = Value(Undefined) /\ pc = "start"
LimiterAtRest == cfg = NoCfg /\ requests = EmptyMap /\ now = 0 /\ calls = <<>>
PipelineAtRest == route = "" /\ trace = <<>> /\ external = 0

\* the effect of one middleware invocation on the request in hand
Apply(out) ==
    /\ nextCalls' = nextCalls + out.next
    /\ res' = res \o out.sent
    /\ thrown' = out.threw
    /\ auth' = out.auth
    /\ log' = log \o out.log

\* ------------------------------------------------------------------------
\* The rate limiter on its own: one limiter, a clock, calls by several keys
\* ------------------------------------------------------------------------
KeyA == Str(Rep("k", MaxKeyLen))
Ip1 == Str(<<"1">>)

LimiterCfgs == [windowMs : {2 * TickMs, 3 * TickMs}, maxRequests : {0, 1, 2}]

\* who calls: an authenticated identity, no identity at all, the record of
\* the optional authenticator, or a request without a network origin
Caller(a, ip) == [auth |-> a, ip |-> ip]
LimiterCallers ==
    { Caller(Identity(KeyA, TRUE, Timestamp(0)), Ip1),
      Caller(Undefined, Ip1),
      Caller(Identity(Undefined, FALSE, Timestamp(0)), Ip1),
      Caller(Undefined, Undefined) }

InitLimiter ==
    /\ RequestAtRest /\ PipelineAtRest
    /\ cfg \in LimiterCfgs
    /\ requests = EmptyMap
    /\ now = 0
    /\ calls = <<>>

\* time passes
Tick ==
    /\ now < MaxTicks * TickMs
    /\ now' = now + TickMs
    /\ UNCHANGED <<cfg, requests, calls>>
    /\ UNCHANGED reqVars /\ UNCHANGED pipelineVars

Call(key, t, out) ==
    [key |-> key, t |-> t, admitted |-> out.next = 1,
     status |-> IF Len(out.sent) = 0 THEN 0 ELSE out.sent[1].status,
     retryAfter |-> IF Len(out.sent) = 0 THEN 0 ELSE out.sent[1].retryAfter,
     threw |-> out.threw]

\* a request reaches the limiter middleware
RateLimit ==
    /\ Len(calls) < MaxCalls
    /\ \E c \in LimiterCallers :
        LET r == Request(NoHeaders, EmptyObject, EmptyObject, c.ip)
            result == rateLimit(cfg, requests, r, c.auth, now)
        IN /\ req' = r
           /\ requests' = result.requests
           /\ calls' = Append(calls, Call(limiterKey(r, c.auth), now, result.out))
           /\ nextCalls' = result.out.next
           /\ res' = result.out.sent
           /\ thrown' = result.out.threw
           /\ auth' = result.out.auth
           /\ log' = result.out.log
           /\ pc' = "limited"
    /\ UNCHANGED <<cfg, now, env, schema, resolved>>
    /\ UNCHANGED pipelineVars

NextLimiter == Tick \/ RateLimit

SpecLimiter == InitLimiter /\ [][NextLimiter]_vars

\* ---- C1 ------------------------------------------------------------------
SameKey(i, j) == calls[i].key = calls[j].key

\* the key of call i holds no counted timestamp when call i is made: no
\* earlier admitted call of the key is less than windowMs old
FreshAt(i) ==
    \A m \in 1..(i - 1) :
        SameKey(m, i) /\ calls[m].admitted => calls[i].t - calls[m].t >= cfg.windowMs

\* position of call j among the calls of its key from call i on
Position(i, j) == Cardinality({m \in i..j : SameKey(m, j)})

\* C1: with limit N >= 1 and window W, of the calls of one key made less than
\* W ms after the first of them (the key having nothing counted at the
\* first), the first N are admitted and every further one is rejected with
\* status 429; a call made more than W ms after every admitted call of its
\* key is admitted again.
C1_FirstNThenReject ==
    cfg.maxRequests >= 1 =>
        \A i \in 1..Len(calls), j \in 1..Len(calls) :
            /\ (/\ i <= j /\ SameKey(i, j) /\ typeof(calls[j].key) = "string"
                /\ FreshAt(i)
                /\ calls[j].t - calls[i].t < cfg.windowMs)
               => /\ calls[j].admitted <=> Position(i, j) <= cfg.maxRequests
                  /\ ~calls[j].admitted => calls[j].status = 429
            /\ (/\ typeof(calls[j].key) = "string"
                /\ \A m \in 1..(j - 1) :
                     SameKey(m, j) /\ calls[m].admitted
                        => calls[j].t - calls[m].t > cfg.windowMs)
               => calls[j].admitted

\* N = 2: two admitted, a third rejected inside the window, and the key
\* admitted again once the window has passed
C1_Witness ==
    /\ cfg.maxRequests = 2
    /\ Len(calls) = 4
    /\ \A m \in 1..4 : calls[m].key = KeyA
    /\ calls[1].admitted /\ calls[2].admitted
    /\ ~calls[3].admitted /\ calls[3].status = 429
    /\ calls[3].t - calls[1].t < cfg.windowMs
    /\ calls[4].t - calls[2].t > cfg.windowMs
    /\ calls[4].admitted

\* ---- C13 -----------------------------------------------------------------
\* call m is the last call made under its key
LastOfKey(m) == \A j \in (m + 1)..Len(calls) : ~SameKey(m, j)

\* C13 as stated: in every state in which more than windowMs has elapsed
\* since the last call of a key, the limiter's map holds no entry for it.
C13_EvictedOnceWindowPassed ==
    \A m \in 1..Len(calls) :
        (LastOfKey(m) /\ now - calls[m].t > cfg.windowMs)
            => calls[m].key \notin DOMAIN requests

\* C13 as amended: eviction is done by the limiter calls.  After every
\* call the map holds no empty list and no timestamp that is windowMs old
\* or older at that call, so a key whose last call lies windowMs or more
\* before the latest limiter call (by whatever key) has no entry at all.
C13_EvictedAtNextCall ==
    Len(calls) > 0 =>
        LET last == calls[Len(calls)] IN
        /\ \A k \in DOMAIN requests :
              /\ Len(requests[k]) > 0
              /\ \A i \in 1..Len(requests[k]) : requests[k][i] > last.t - cfg.windowMs
        /\ \A m \in 1..Len(calls) :
              (LastOfKey(m) /\ last.t - calls[m].t >= cfg.windowMs)
                  => calls[m].key \notin DOMAIN requests

\* the key was admitted, went silent, and a call of another origin made a
\* window later has removed its entry
C13_Witness ==
    /\ Len(calls) = 2
    /\ calls[1].key = KeyA /\ calls[1].admitted
    /\ calls[2].key = Ip1 /\ calls[2].admitted
    /\ calls[2].t - calls[1].t = cfg.windowMs
    /\ DOMAIN requests = {Ip1}

\* ---- C14 -----------------------------------------------------------------
\* the least number of whole seconds that covers ms milliseconds
WholeSeconds(ms) == CHOOSE n \in 0..ms : n * 1000 >= ms /\ (n - 1) * 1000 < ms

\* C14: every rejection by the limiter has status 429 and carries
\* retryAfter = ceil(windowMs / 1000), whatever the age of the timestamps
\* stored for the key when the call is rejected.
C14_FixedRetryAfter ==
    /\ \A j \in 1..Len(calls) :
          (~calls[j].admitted /\ ~calls[j].threw) =>
              /\ calls[j].status = 429
              /\ calls[j].retryAfter = WholeSeconds(cfg.windowMs)
    /\ (pc = "limited" /\ Len(res) = 1) =>
          res[1].retryAfter = WholeSeconds(cfg.windowMs)

\* a window of one and a half seconds: two rejections of one key, made when
\* its stored timestamp is half a second and one second old, both carry 2
C14_Witness ==
    /\ cfg.windowMs = 3 * TickMs /\ cfg.maxRequests = 1
    /\ Len(calls) >= 3
    /\ \A m \in 1..3 : calls[m].key = KeyA
    /\ calls[1].admitted
    /\ ~calls[2].admitted /\ ~calls[3].admitted
    /\ calls[2].t - calls[1].t = TickMs /\ calls[3].t - calls[1].t = 2 * TickMs
    /\ calls[2].retryAfter = WholeSeconds(3 * TickMs)
    /\ calls[3].retryAfter = calls[2].retryAfter

\* ---- C15 -----------------------------------------------------------------
\* the key the request is to be counted under: the identity's key when the
\* request carries an identity with a key, the network origin otherwise
CountingKey(r, a) == IF a.t = "object" /\ Truthy(a.apiKey) THEN a.apiKey ELSE r.ip

\* no key of `ks` gained a timestamp in the step
NothingAdded(ks) ==
    \A x \in ks : x \in DOMAIN requests /\ Len(requests'[x]) <= Len(requests[x])

\* timestamps of key k that are still inside the window at time t
Recent(k, t) ==
    IF k \in DOMAIN requests
    THEN Cardinality({i \in 1..Len(requests[k]) : requests[k][i] > t - cfg.windowMs})
    ELSE 0

\* C15: a limiter call counts the request under exactly one key: the key of
\* its identity when it has one, req.ip when it has no identity or an
\* identity without key ({authenticated: false}).  An admitted call adds one
\* timestamp, the current time, to the list of that key and to no other; a
\* call that is not admitted adds none.
C15_CountedUnderOneKey ==
    [][ calls' # calls =>
          LET c == calls'[Len(calls')]
              k == CountingKey(req', auth')
          IN /\ c.admitted =>
                  /\ k \in DOMAIN requests'
                  /\ Len(requests'[k]) = Recent(k, now) + 1
                  /\ requests'[k][Len(requests'[k])] = now
                  /\ NothingAdded(DOMAIN requests' \ {k})
             /\ ~c.admitted => NothingAdded(DOMAIN requests')
      ]_vars

\* an identity with a key is counted under the key; an anonymous request
\* and one with the record {authenticated: false} are both counted under
\* the origin they share
C15_Witness ==
    /\ Len(calls) = 3
    /\ \A m \in 1..3 : calls[m].admitted
    /\ auth = Identity(Undefined, FALSE, Timestamp(0))
    /\ req.ip = Ip1
    /\ DOMAIN requests = {KeyA, Ip1}
    /\ Len(requests[KeyA]) = 1 /\ Len(requests[Ip1]) = 2

\* ---- C19 -----------------------------------------------------------------
\* C19: no stage lets an exception escape: the limiter ends every call
\* either in next() or in one structured response, for every request shape,
\* a request without network origin and without identity key included.
C19_NoStageThrows ==
    pc = "limited" =>
        /\ ~thrown
        /\ nextCalls + Len(res) = 1

\* ---- C20 -----------------------------------------------------------------
\* admitted calls among calls i..j made under the key of call j
AdmittedBetween(i, j) ==
    Cardinality({m \in i..j : SameKey(m, j) /\ calls[m].admitted})

\* C20: sliding-window bound.  Of the calls of one key whose times lie less
\* than windowMs apart, at most maxRequests are admitted, and the list
\* stored for a key never holds more than maxRequests timestamps.
C20_SlidingWindowBound ==
    /\ \A k \in DOMAIN requests : Len(requests[k]) <= cfg.maxRequests
    /\ \A i \in 1..Len(calls), j \in 1..Len(calls) :
          (/\ i <= j /\ SameKey(i, j)
           /\ calls[j].t - calls[i].t < cfg.windowMs)
              => AdmittedBetween(i, j) <= cfg.maxRequests

\* limit 2: two admitted, one rejected inside the window, and a fourth call
\* exactly windowMs after the first admitted, the list holding that one only
C20_Witness ==
    /\ cfg.maxRequests = 2
    /\ Len(calls) = 4
    /\ \A m \in 1..4 : calls[m].key = Ip1
    /\ calls[1].admitted /\ calls[2].admitted /\ ~calls[3].admitted /\ calls[4].admitted
    /\ calls[2].t = calls[1].t
    /\ calls[4].t - calls[1].t = cfg.windowMs
    /\ requests[Ip1] = <<calls[4].t>>

\* ---- C21 -----------------------------------------------------------------
\* the stored timestamps of key k strictly newer than now - windowMs
Pruned(k) ==
    IF k \in DOMAIN requests
    THEN SelectSeq(requests[k], LAMBDA ts : ts > now - cfg.windowMs)
    ELSE <<>>

\* the list stored for key k, empty when the map has no entry
Stored(reqs, k) == IF k \in DOMAIN reqs THEN reqs[k] ELSE <<>>

\* C21: a call at time now for key K is admitted if and only if fewer than
\* maxRequests of K's stored timestamps are strictly greater than
\* now - windowMs; an admitted call leaves K's pruned list with now appended,
\* a call that is not admitted leaves K's pruned list and appends nothing.
C21_AdmitIffBelowLimit ==
    [][ calls' # calls =>
          LET c == calls'[Len(calls')]
              k == c.key
          IN /\ c.admitted <=> Len(Pruned(k)) < cfg.maxRequests
             /\ c.admitted => Stored(requests', k) = Append(Pruned(k), now)
             /\ ~c.admitted => Stored(requests', k) = Pruned(k)
      ]_vars

\* limit 1: admitted, admitted again exactly windowMs later (the first
\* timestamp no longer counts), rejected at that same instant
C21_Witness ==
    /\ cfg.maxRequests = 1
    /\ Len(calls) = 3
    /\ \A m \in 1..3 : calls[m].key = KeyA
    /\ calls[1].admitted /\ calls[2].admitted /\ ~calls[3].admitted
    /\ calls[2].t - calls[1].t = cfg.windowMs
    /\ calls[3].t = calls[2].t
    /\ requests[KeyA] = <<calls[2].t>>

\* ---- C22 -----------------------------------------------------------------
\* C22: every limiter call, admitted or not and whichever key makes it,
\* prunes all tracked keys: right after a call at time now every key in the
\* map has a non-empty list of timestamps strictly greater than
\* now - windowMs, and a key other than the caller's keeps exactly its pruned
\* list, or loses its entry when that list is empty.
C22_EveryCallPrunesAllKeys ==
    [][ calls' # calls =>
          LET c == calls'[Len(calls')] IN
          /\ \A k \in DOMAIN requests' :
                /\ Len(requests'[k]) > 0
                /\ \A i \in 1..Len(requests'[k]) : requests'[k][i] > now - cfg.windowMs
          /\ \A k \in DOMAIN requests :
                k # c.key =>
                    /\ Stored(requests', k) = Pruned(k)
                    /\ k \in DOMAIN requests' <=> Len(Pruned(k)) > 0
      ]_vars

\* a rejected call of one origin removes the expired entry of another key
C22_Witness ==
    /\ cfg.maxRequests = 1
    /\ Len(calls) = 3
    /\ calls[1].key = KeyA /\ calls[1].admitted
    /\ calls[2].key = Ip1 /\ calls[2].admitted
    /\ calls[3].key = Ip1 /\ ~calls[3].admitted /\ calls[3].status = 429
    /\ calls[3].t - calls[1].t = cfg.windowMs
    /\ calls[3].t - calls[2].t < cfg.windowMs
    /\ DOMAIN requests = {Ip1}

\* ---- C23 -----------------------------------------------------------------
\* admitted calls of the key of call j that are less than windowMs old at
\* the latest call
LiveAdmissions(j) ==
    {m \in 1..Len(calls) :
        /\ SameKey(m, j) /\ calls[m].admitted
        /\ calls[m].t > calls[Len(calls)].t - cfg.windowMs}

\* calls of the key of call j made at the same instant as call j
Burst(j) == {m \in 1..Len(calls) : SameKey(m, j) /\ calls[m].t = calls[j].t}

\* C23: each invocation running to completion, no update is lost: the list
\* of a key holds one timestamp for every admitted call of the key that is
\* still inside the window, and of any number of calls of one key made at
\* the same instant at most maxRequests are admitted.
C23_NoLostUpdate ==
    \A j \in 1..Len(calls) :
        /\ Len(Stored(requests, calls[j].key)) = Cardinality(LiveAdmissions(j))
        /\ Cardinality({m \in Burst(j) : calls[m].admitted}) <= cfg.maxRequests

\* limit 2 and three requests of one key at the same instant: two pass
C23_Witness ==
    /\ cfg.maxRequests = 2
    /\ Len(calls) = 3
    /\ \A m \in 1..3 : calls[m].key = KeyA /\ calls[m].t = calls[1].t
    /\ calls[1].admitted /\ calls[2].admitted /\ ~calls[3].admitted
    /\ requests[KeyA] = <<calls[1].t, calls[1].t>>

\* ---- C24 -----------------------------------------------------------------
\* admissions of the key of call i that are counted when call i is made
CountedAt(i) ==
    {m \in 1..(i - 1) :
        SameKey(m, i) /\ calls[m].admitted /\ calls[i].t - calls[m].t < cfg.windowMs}

\* C24: with maxRequests >= 1 a key is not blocked for ever.  If call i of a
\* key is not admitted and the key is not admitted from then on until call
\* j, made more than windowMs after the oldest admission counted at call i,
\* then call j is admitted: calls that are not admitted do not extend the
\* block.
C24_AdmittedAfterWindow ==
    cfg.maxRequests >= 1 =>
        \A i \in 1..Len(calls), j \in 1..Len(calls) :
            (/\ i < j /\ SameKey(i, j)
             /\ \A m \in i..(j - 1) : SameKey(m, j) => ~calls[m].admitted
             /\ \E m \in CountedAt(i) :
                   /\ \A n \in CountedAt(i) : calls[m].t <= calls[n].t
                   /\ calls[j].t - calls[m].t > cfg.windowMs)
                => calls[j].admitted

\* admitted, rejected twice at different times inside the window, and
\* admitted on the first call past the window
C24_Witness ==
    /\ cfg.maxRequests = 1
    /\ Len(calls) = 4
    /\ \A m \in 1..4 : calls[m].key = KeyA
    /\ calls[1].admitted /\ ~calls[2].admitted /\ ~calls[3].admitted
    /\ calls[2].t < calls[3].t
    /\ calls[3].t - calls[1].t < cfg.windowMs
    /\ calls[4].t - calls[1].t > cfg.windowMs
    /\ calls[4].admitted

\* ---- C25 -----------------------------------------------------------------
\* times of the admitted calls of key k newer than t - windowMs, in order:
\* what k's own calls, the clock and the configuration determine
OwnAdmitted(k, t) ==
    LET own == SelectSeq(calls, LAMBDA c : c.key = k /\ c.admitted /\ c.t > t - cfg.windowMs)
    IN [i \in 1..Len(own) |-> own[i].t]

\* the decision of every call follows from the earlier admissions of its key
OwnDecisions ==
    \A j \in 1..Len(calls) :
        calls[j].admitted <=> Cardinality(CountedAt(j)) < cfg.maxRequests

\* C25 as stated: the decision for a call of key K and K's stored list
\* depend on K's own calls only: the list is what K's admitted calls left at
\* K's last call, whatever other keys have done since.
C25_ListIndependentOfOthers ==
    /\ OwnDecisions
    /\ \A m \in 1..Len(calls) :
          LastOfKey(m) =>
              Stored(requests, calls[m].key) = OwnAdmitted(calls[m].key, calls[m].t)

\* C25 as amended: the decision for a call of key K depends on K's own
\* earlier admissions, the clock and the configuration only; K's stored
\* list holds K's own admissions and nothing else, but it is pruned by the
\* calls of every key: it holds those newer than windowMs at the latest
\* limiter call, by whatever key that call was made.
C25_DecisionsIsolated ==
    /\ OwnDecisions
    /\ \A m \in 1..Len(calls) :
          Stored(requests, calls[m].key)
              = OwnAdmitted(calls[m].key, calls[Len(calls)].t)

\* one origin has used up its limit and is rejected; another key calling at
\* the same instant is admitted
C25_Witness ==
    /\ cfg.maxRequests = 1
    /\ Len(calls) = 3
    /\ calls[1].key = Ip1 /\ calls[2].key = Ip1 /\ calls[3].key = KeyA
    /\ calls[1].admitted /\ ~calls[2].admitted /\ calls[3].admitted
    /\ calls[3].t = calls[1].t
    /\ requests[KeyA] = <<calls[3].t>> /\ requests[Ip1] = <<calls[1].t>>

\* ---- C26 -----------------------------------------------------------------
\* C26: an invocation of authenticateRequest, of a validateRequest
\* middleware or of the rate-limit middleware ends in exactly one outcome:
\* next called once and nothing sent, or one response sent (400, 401, 429
\* or 500) and next not called.
C26_ExactlyOneOutcome ==
    pc \in {"authenticated", "validated", "limited"} =>
        \/ nextCalls = 1 /\ res = <<>>
        \/ /\ nextCalls = 0 /\ Len(res) = 1
           /\ res[1].status \in {400, 401, 429, 500}

\* ------------------------------------------------------------------------
\* The authenticator on its own: one configuration, one request, and one of
\* getApiKeyFromRequest, authenticateRequest, optionalAuthenticate applied
\* ------------------------------------------------------------------------
Secret123 == <<"s", "e", "c", "r", "e", "t", "1", "2", "3">>
Secret124 == <<"s", "e", "c", "r", "e", "t", "1", "2", "4">>

\* credentials a client may put in the x-api-key header
KeyStrings ==
    {Rep("k", n) : n \in 0..MaxKeyLen}
    \cup { <<" ">>, <<" ", "k", "\t">>, <<" ">> \o Rep("k", 8) \o <<" ">>,
           Secret123, Secret124, <<" ">> \o Secret123 }

XApiKeyValues == {Undefined} \cup {Str(s) : s \in KeyStrings}

AuthorizationValues ==
    { Undefined,
      Str(Bearer \o Secret123),
      Str(Secret123),
      Str(Bearer),
      Str(Bearer \o Bearer \o <<"k">>),
      Str(<<"x">> \o Bearer \o <<"k">>) }

ApiKeyHeaderValues == {Undefined, Str(Rep("k", 8))}

QueryValues ==
    { Undefined, EmptyObject,
      Obj([k \in {"apiKey"} |-> Str(Secret123)]),
      Obj([k \in {"apiKey"} |-> Arr(2)]) }

BodyValues ==
    { Undefined, EmptyObject,
      Obj([k \in {"apiKey"} |-> Str(Secret124)]),
      Obj([k \in {"apiKey"} |-> Num("1")]) }

AuthRequests ==
    { Request([xApiKey |-> x, authorization |-> a, apiKey |-> h], q, b, Ip1) :
        x \in XApiKeyValues, a \in AuthorizationValues, h \in ApiKeyHeaderValues,
        q \in QueryValues, b \in BodyValues }

\* process.env: API_KEY unset, set to the empty string, or set to a key
Envs ==
    [NODE_ENV : {"development", "production", ""},
     API_KEY : {Undefined, Str(<<>>), Str(Secret123), Str(Rep("k", 8))}]

InitAuth ==
    /\ LimiterAtRest /\ PipelineAtRest
    /\ env \in Envs
    /\ req \in AuthRequests
    /\ auth = Undefined /\ schema = <<>>
    /\ res = <<>> /\ nextCalls = 0 /\ thrown = FALSE /\ log = <<>>
    /\ resolved = Value(Undefined) /\ pc = "start"

\* getApiKeyFromRequest(req) is called directly
ResolveKey ==
    /\ pc = "start"
    /\ resolved' = getApiKeyFromRequest(req)
    /\ thrown' = resolved'.throws
    /\ pc' = "resolved"
    /\ UNCHANGED <<env, req, auth, schema, res, nextCalls, log>>
    /\ UNCHANGED limiterVars /\ UNCHANGED pipelineVars

\* authenticateRequest(req, res, next) runs
Authenticate ==
    /\ pc = "start"
    /\ Apply(authenticateRequest(env, req, auth, now))
    /\ pc' = "authenticated"
    /\ UNCHANGED <<env, req, schema, resolved>>
    /\ UNCHANGED limiterVars /\ UNCHANGED pipelineVars

\* optionalAuthenticate(req, res, next) runs
OptionalAuthenticate ==
    /\ pc = "start"
    /\ Apply(optionalAuthenticate(env, req, auth, now))
    /\ pc' = "optional"
    /\ UNCHANGED <<env, req, schema, resolved>>
    /\ UNCHANGED limiterVars /\ UNCHANGED pipelineVars

NextAuth == ResolveKey \/ Authenticate \/ OptionalAuthenticate

SpecAuth == InitAuth /\ [][NextAuth]_vars

\* the request is one the body and query parsers have filled in
WellFormed == ~Nullish(req.query) /\ ~Nullish(req.body)

\* the candidate getApiKeyFromRequest resolves for the request in hand
Candidate == getApiKeyFromRequest(req).value

Configured == Truthy(env.API_KEY)

DevelopmentMode == env.NODE_ENV = "development"

Rejected(status, error) ==
    /\ nextCalls = 0 /\ auth = Undefined
    /\ Len(res) = 1 /\ res[1].status = status /\ res[1].error = error

\* ---- C4 ------------------------------------------------------------------
\* C4: with a configured key K, authenticateRequest admits a request whose
\* resolved candidate equals K and attaches {apiKey: K, authenticated: true,
\* timestamp}; rejects any other candidate with 401 'Invalid API key'; rejects
\* a request without candidate with 401 'Authentication required'; a rejected
\* request gets no next() and no identity.
C4_ConfiguredKeyDecides ==
    (pc = "authenticated" /\ Configured /\ WellFormed) =>
        /\ Candidate = env.API_KEY =>
              /\ nextCalls = 1 /\ res = <<>>
              /\ auth = Identity(env.API_KEY, TRUE, Timestamp(now))
        /\ (Candidate # Null /\ Candidate # env.API_KEY) =>
              Rejected(401, "Invalid API key")
        /\ Candidate = Null => Rejected(401, "Authentication required")

C4_Witness ==
    /\ pc = "authenticated"
    /\ env.API_KEY = Str(Secret123)
    /\ req.headers.xApiKey = Undefined
    /\ req.headers.authorization = Str(Bearer \o Secret123)
    /\ nextCalls = 1
    /\ auth = Identity(Str(Secret123), TRUE, Timestamp(now))

\* ---- C5 ------------------------------------------------------------------
Authenticated == nextCalls = 1 /\ auth.t = "object" /\ auth.authenticated

\* C5: in development mode without a configured key, a request presenting a
\* candidate of length >= 8 authenticates and one presenting a candidate of
\* length 7 does not.
C5_DevelopmentFallback ==
    (/\ pc = "authenticated" /\ DevelopmentMode /\ ~Configured
     /\ WellFormed /\ Candidate # Null) =>
        /\ Len(Candidate.s) >= 8 => Authenticated
        /\ Len(Candidate.s) = 7 => ~Authenticated

\* ---- C6 ------------------------------------------------------------------
\* C6 as stated: the development bypass admits the request with an identity
\* record {authenticated: false} attached; with a key configured the bypass
\* is never taken.
C6_BypassAttachesIdentity ==
    pc = "authenticated" =>
        /\ (DevelopmentMode /\ ~Configured) =>
              /\ nextCalls = 1 /\ res = <<>>
              /\ auth.t = "object" /\ auth.authenticated = FALSE
        /\ Configured => log # <<SkipLog>>

\* C6 as amended: the development bypass admits the request at once (next
\* called once, nothing sent, no candidate resolved) and leaves req.auth
\* unset; with a key configured the bypass is never taken, in any mode: a
\* request whose candidate is not the key gets no next().
C6_BypassLeavesAuthUnset ==
    pc = "authenticated" =>
        /\ (DevelopmentMode /\ ~Configured) =>
              /\ nextCalls = 1 /\ res = <<>> /\ ~thrown
              /\ auth = Undefined
              /\ log = <<SkipLog>>
        /\ Configured =>
              /\ log # <<SkipLog>>
              /\ (WellFormed /\ Candidate # env.API_KEY) => nextCalls = 0
              /\ ~WellFormed => nextCalls = 0

C6_Witness ==
    /\ pc = "authenticated"
    /\ DevelopmentMode /\ env.API_KEY = Undefined
    /\ WellFormed /\ Candidate = Null
    /\ nextCalls = 1 /\ auth = Undefined

\* ---- C7 ------------------------------------------------------------------
\* C7: outside development mode and without a configured key, isValidApiKey
\* is false for every candidate and authenticateRequest rejects every request
\* with 401, whether it presents no candidate, a short one or a long one.
C7_NoKeyOutsideDevelopmentRejects ==
    (~DevelopmentMode /\ ~Configured /\ WellFormed) =>
        /\ \A i \in 1..Len(locations(req)) : ~isValidApiKey(env, locations(req)[i])
        /\ ~isValidApiKey(env, Candidate)
        /\ pc = "authenticated" =>
              /\ nextCalls = 0 /\ auth = Undefined
              /\ Len(res) = 1 /\ res[1].status = 401

C7_Witness ==
    /\ pc = "authenticated"
    /\ env.NODE_ENV = "" /\ env.API_KEY = Undefined
    /\ WellFormed /\ Candidate = Str(Rep("k", MaxKeyLen))
    /\ Rejected(401, "Invalid API key")

\* ---- C8 ------------------------------------------------------------------
\* the authorization header with a leading 'Bearer ' removed
withoutBearerPrefix(h) ==
    IF Nullish(h) THEN h
    ELSE IF startsWith(h.s, Bearer)
    THEN Str(SubSeq(h.s, Len(Bearer) + 1, Len(h.s)))
    ELSE h

statedLocations(r) ==
    << r.headers.xApiKey,
       withoutBearerPrefix(r.headers.authorization),
       r.headers.apiKey,
       Get(r.query, "apiKey"),
       Get(r.body, "apiKey") >>

\* C8: getApiKeyFromRequest returns the trimmed value of the first of
\* x-api-key, authorization without its 'Bearer ' prefix, api-key, query
\* apiKey, body apiKey that is a string of non-zero trimmed length, and null
\* when there is none; the result is never empty nor whitespace-padded.
C8_FirstNonEmptyLocation ==
    (pc = "resolved" /\ ~thrown) =>
        LET loc == statedLocations(req)
            hits == {i \in 1..Len(loc) : loc[i].t = "string" /\ Len(trim(loc[i].s)) > 0}
            first == CHOOSE i \in hits : \A j \in hits : i <= j
        IN /\ hits = {} => resolved.value = Null
           /\ hits # {} =>
                /\ resolved.value = Str(trim(loc[first].s))
                /\ Len(resolved.value.s) > 0
                /\ resolved.value.s[1] \notin Whitespace
                /\ resolved.value.s[Len(resolved.value.s)] \notin Whitespace

\* ---- C16 -----------------------------------------------------------------
\* the validity rule, stated from the configuration: the configured key when
\* there is one, any key of 8 characters or more in development mode
\* without one, none otherwise
ValidCandidate ==
    /\ WellFormed
    /\ Candidate.t = "string"
    /\ IF Configured THEN Candidate = env.API_KEY
       ELSE DevelopmentMode /\ Len(Candidate.s) >= 8

\* C16: optionalAuthenticate never rejects: it calls next once and sends
\* nothing; it attaches {apiKey, authenticated: true} exactly when a
\* candidate is resolved and is valid, and {authenticated: false} without
\* key when there is no candidate, the candidate is not valid, or the
\* resolution throws.
C16_OptionalNeverRejects ==
    pc = "optional" =>
        /\ nextCalls = 1 /\ res = <<>> /\ ~thrown
        /\ auth.t = "object"
        /\ ValidCandidate => (auth.authenticated /\ auth.apiKey = Candidate)
        /\ ~ValidCandidate => (~auth.authenticated /\ auth.apiKey = Undefined)

\* a key is configured and the request presents another one
C16_Witness ==
    /\ pc = "optional"
    /\ env.API_KEY = Str(Secret123)
    /\ WellFormed /\ Candidate = Str(Secret124)
    /\ nextCalls = 1 /\ res = <<>>
    /\ auth = Identity(Undefined, FALSE, Timestamp(now))

\* ---- C17 -----------------------------------------------------------------
\* C17: every outcome of authenticateRequest on a presented credential is
\* logged with the first 8 characters of the credential plus an ellipsis,
\* and the full credential, whatever its length, is in no log entry.
C17_NoFullCredentialInLog ==
    (pc = "authenticated" /\ WellFormed /\ Candidate # Null) =>
        /\ ~(DevelopmentMode /\ ~Configured) =>
              /\ Len(log) = 1
              /\ log[1].key = Str(substring0(Candidate.s, 8) \o Ellipsis)
        /\ \A i \in 1..Len(log) :
              log[i].key.t = "string" => indexOf(log[i].key.s, Candidate.s) = 0

\* ---- C18 -----------------------------------------------------------------
\* C18: a request presenting a candidate that is not valid is rejected, under
\* every configuration that rejects at all, with one and the same response:
\* 401 'Invalid API key' and a fixed message, in which neither the candidate
\* nor the configured key has a part.
C18_GenericInvalidKeyResponse ==
    (pc = "authenticated" /\ WellFormed /\ Candidate # Null) =>
        /\ (~ValidCandidate /\ ~(DevelopmentMode /\ ~Configured)) => nextCalls = 0
        /\ nextCalls = 0 =>
              /\ ~thrown
              /\ res = << [status |-> 401, error |-> "Invalid API key",
                           message |-> "The provided API key is invalid",
                           retryAfter |-> 0, details |-> <<>>] >>

\* production without a configured key: a well-formed key is rejected with
\* the same response as a wrong key is when one is configured
C18_Witness ==
    /\ pc = "authenticated"
    /\ env.NODE_ENV = "production" /\ env.API_KEY = Undefined
    /\ WellFormed /\ Candidate = Str(Secret123)
    /\ nextCalls = 0 /\ Len(res) = 1
    /\ res[1].status = 401 /\ res[1].message = "The provided API key is invalid"

\* ------------------------------------------------------------------------
\* The validator on its own: one schema, one request body, and the
\* middleware validateRequest(schema) applied to it
\* ------------------------------------------------------------------------
Limits == {NoLimit} \cup {Limit(n) : n \in 0..MaxRuleLen}

StringRules ==
    { [Rule(r, "string") EXCEPT !.minLength = lo, !.maxLength = hi,
                                !.pattern = p, !.format = f] :
        r \in BOOLEAN, lo \in Limits, hi \in Limits,
        p \in {"", PatternAs, PatternMalformed}, f \in {"", "url", "email"} }

ArrayRules ==
    { [Rule(r, "array") EXCEPT !.minItems = lo, !.maxItems = hi] :
        r \in BOOLEAN, lo \in Limits, hi \in Limits }

ObjectRules ==
    { [Rule(r, "object") EXCEPT !.requiredFields = s] :
        r \in BOOLEAN,
        s \in {NoSubfields, Subfields(<<>>), Subfields(<<"a">>),
               Subfields(<<"a", "b">>), NonIterable} }

\* "date" is a kind validateType does not know; "" is a rule without type
PlainRules ==
    { Rule(r, t) : r \in BOOLEAN,
                   t \in {"number", "boolean", "integer", "float", "date", ""} }

Rules == StringRules \cup ArrayRules \cup ObjectRules \cup PlainRules

FieldStrings ==
    {Rep("a", n) : n \in 0..MaxStrLen}
    \cup { <<"b">>, <<"a", ":">>, <<"a", "@", "a", ".", "a">> }

FieldValues ==
    {Undefined, Null}
    \cup {Str(s) : s \in FieldStrings}
    \cup {Num(n) : n \in {"0", "1", "1.5", "NaN", "Infinity"}}
    \cup {Bool(TRUE)}
    \cup {Arr(n) : n \in 0..(MaxRuleLen + 1)}
    \cup {EmptyObject, Obj([k \in {"a"} |-> Num("1")])}

\* the second field of a two-field schema comes from a short list
SecondRules ==
    { Rule(TRUE, "string"),
      [Rule(FALSE, "string") EXCEPT !.minLength = Limit(2), !.pattern = PatternAs],
      [Rule(FALSE, "string") EXCEPT !.pattern = PatternMalformed] }
SecondValues == {Undefined, Str(<<"b">>), Num("1.5")}

\* {f: v} and {f: v, g: w}; a JSON body has no key for an undefined value
Body1(v) == Obj([k \in {n \in {"f"} : v # Undefined} |-> v])
Body2(v, w) ==
    Obj([k \in {n \in {"f", "g"} : (IF n = "f" THEN v ELSE w) # Undefined}
            |-> IF k = "f" THEN v ELSE w])

\* values a client may send under a sensitive name
CredentialValues ==
    {Undefined, Null, Str(<<"b">>), Str(<<>>), Num("0"), Num("1"), Bool(FALSE)}

\* {<name>: v, f: w}
CredentialBody(name, v, w) ==
    Obj([k \in {n \in {name, "f"} : (IF n = name THEN v ELSE w) # Undefined}
            |-> IF k = name THEN v ELSE w])

BodyRequest(b) == Request(NoHeaders, EmptyObject, b, Ip1)

\* the schemas and bodies the validator is run on: one field; two fields;
\* a schema whose request has no body; the empty schema; a body that fails
\* validation and carries a field with a sensitive name
ValidationCase ==
    \/ \E r \in Rules, v \in FieldValues :
        /\ schema = <<Field("f", r)>>
        /\ req = BodyRequest(Body1(v))
    \/ \E r \in Rules, v \in FieldValues, r2 \in SecondRules, v2 \in SecondValues :
        /\ schema = <<Field("f", r), Field("g", r2)>>
        /\ req = BodyRequest(Body2(v, v2))
    \/ \E r \in Rules :
        /\ schema = <<Field("f", r)>>
        /\ req = BodyRequest(Undefined)
    \/ \E b \in {Undefined, EmptyObject} :
        /\ schema = <<>>
        /\ req = BodyRequest(b)
    \/ \E n \in SensitiveFields, v \in CredentialValues,
          w \in {Undefined, Obj([k \in {"password"} |-> Str(<<"b">>)])} :
        /\ schema = <<Field("f", Rule(TRUE, "string"))>>
        /\ req = BodyRequest(CredentialBody(n, v, w))

InitValidate ==
    /\ LimiterAtRest /\ PipelineAtRest
    /\ env = NoEnv
    /\ ValidationCase
    /\ auth = Undefined
    /\ res = <<>> /\ nextCalls = 0 /\ thrown = FALSE /\ log = <<>>
    /\ resolved = Value(Undefined) /\ pc = "start"

\* the middleware validateRequest(schema) runs
Validate ==
    /\ pc = "start"
    /\ Apply(validateRequest(schema, req, auth))
    /\ pc' = "validated"
    /\ UNCHANGED <<env, req, schema, resolved>>
    /\ UNCHANGED limiterVars /\ UNCHANGED pipelineVars

NextValidate == Validate

SpecValidate == InitValidate /\ [][NextValidate]_vars

\* ---- C9 ------------------------------------------------------------------
\* what the schema says of one field, stated rule by rule
FieldAbsent(rule, v) == Nullish(v) \/ (rule.required /\ v = Str(<<>>))

KindMatches(rule, v) == rule.type = "" \/ validateType(v, rule.type)

ConstraintsRespected(rule, v) ==
    /\ (rule.type = "string" /\ v.t = "string") =>
          /\ rule.minLength.given => Len(v.s) >= rule.minLength.n
          /\ rule.maxLength.given => Len(v.s) <= rule.maxLength.n
          /\ rule.pattern # "" => regexTest(rule.pattern, v.s)
          /\ rule.format = "url" => isValidUrl(v.s)
          /\ rule.format = "email" => isValidEmail(v.s)
    /\ (rule.type = "array" /\ v.t = "array") =>
          /\ rule.minItems.given => v.len >= rule.minItems.n
          /\ rule.maxItems.given => v.len <= rule.maxItems.n
    /\ (rule.type = "object" /\ v.t = "object") =>
          \A i \in 1..Len(rule.requiredFields.names) :
              hasProperty(rule.requiredFields.names[i], v)

RuleSatisfied(rule, v) ==
    IF FieldAbsent(rule, v) THEN ~rule.required
    ELSE KindMatches(rule, v) /\ ConstraintsRespected(rule, v)

PayloadSatisfies(sch, body) ==
    \A i \in 1..Len(sch) : RuleSatisfied(sch[i].rule, Get(body, sch[i].name))

\* a rule the loop cannot evaluate: the pattern does not compile, or the
\* required-subfield set cannot be iterated
RuleFaults(rule, v) ==
    /\ ~FieldAbsent(rule, v) /\ KindMatches(rule, v)
    /\ \/ rule.type = "string" /\ v.t = "string" /\ rule.pattern = PatternMalformed
       \/ rule.type = "object" /\ v.t = "object" /\ rule.requiredFields.kind = "noniterable"

Faulty(sch, body) ==
    /\ Len(sch) > 0
    /\ \/ Nullish(body)
       \/ \E i \in 1..Len(sch) : RuleFaults(sch[i].rule, Get(body, sch[i].name))

\* C9: whenever the validator evaluates a schema on a payload, its error
\* list is empty (next is called, nothing is sent) if and only if the payload
\* satisfies every rule: required fields present, present fields of the
\* right kind and within minLength, maxLength, pattern, format, minItems,
\* maxItems and required subfields.
C9_EmptyIffSatisfies ==
    (pc = "validated" /\ ~Faulty(schema, req.body) /\ ~Nullish(req.body)) =>
        ((nextCalls = 1 /\ res = <<>>) <=> PayloadSatisfies(schema, req.body))

\* ---- C10 -----------------------------------------------------------------
\* C10 as stated: for every schema and payload shape the validator returns
\* its error list, never an exception and never an internal-error outcome.
C10_NeverInternalError ==
    pc = "validated" =>
        /\ ~thrown
        /\ \A i \in 1..Len(res) : res[i].status = 400

\* C10 as amended: no exception leaves the validator middleware; it ends in
\* next() with no error, in 400 with the non-empty error list, or in 500
\* 'Validation error', the last exactly when the schema has a field and the
\* body is missing, or a present field of the right kind meets a pattern that
\* does not compile or a required-subfield set that cannot be iterated.
C10_FaultsBecome500 ==
    pc = "validated" =>
        /\ ~thrown
        /\ nextCalls + Len(res) = 1
        /\ Faulty(schema, req.body) <=> (Len(res) = 1 /\ res[1].status = 500)
        /\ \A i \in 1..Len(res) :
            \/ res[i].status = 400 /\ Len(res[i].details) > 0
            \/ res[i].status = 500 /\ res[i].error = "Validation error"
                 /\ Len(res[i].details) = 0

C10_Witness ==
    /\ pc = "validated"
    /\ Len(schema) = 1
    /\ schema[1].rule.pattern = PatternMalformed
    /\ ~Nullish(req.body)
    /\ Len(res) = 1 /\ res[1].status = 500
    /\ nextCalls = 0 /\ ~thrown

\* ---- C11 -----------------------------------------------------------------
\* the errors of the response that name the field or one of its subfields
ErrorsFor(name) ==
    IF Len(res) = 0 THEN <<>>
    ELSE SelectSeq(res[1].details,
                   LAMBDA e : e.field \in {name, name \o ".a", name \o ".b"})

\* C11: a required field absent from the payload (undefined or null) yields
\* exactly one error for that field, REQUIRED_FIELD, whatever else its rule
\* asks for: no kind, length, pattern, format, item-count or subfield check
\* is applied to it, so that not even a pattern that does not compile is met.
C11_RequiredAbsentOneError ==
    (pc = "validated" /\ ~Nullish(req.body) /\ ~Faulty(schema, req.body)) =>
        \A i \in 1..Len(schema) :
            LET name == schema[i].name
                rule == schema[i].rule
            IN (rule.required /\ Nullish(Get(req.body, name))) =>
                  /\ nextCalls = 0 /\ Len(res) = 1 /\ res[1].status = 400
                  /\ ErrorsFor(name) = <<Err(name, "REQUIRED_FIELD")>>

\* a required string field with a minimum length and a pattern that does
\* not compile is absent: one REQUIRED_FIELD error and nothing else
C11_Witness ==
    /\ pc = "validated"
    /\ Len(schema) = 1
    /\ schema[1].rule.required /\ schema[1].rule.type = "string"
    /\ schema[1].rule.pattern = PatternMalformed
    /\ schema[1].rule.minLength = Limit(MaxRuleLen)
    /\ req.body = EmptyObject
    /\ Len(res) = 1 /\ res[1].status = 400
    /\ res[1].details = <<Err("f", "REQUIRED_FIELD")>>

\* ---- C12 -----------------------------------------------------------------
Reported(name, code) ==
    /\ nextCalls = 0 /\ Len(res) = 1 /\ res[1].status = 400
    /\ \E j \in 1..Len(res[1].details) : res[1].details[j] = Err(name, code)

\* a limit that a value can be compared with; a limit of 0 is never compared
Bounded(l) == l.given /\ l.n > 0

\* C12: validation does not stop at the first error.  Every violation of
\* every field is in the one response: a missing required field, a kind
\* mismatch, and for a present string or array of the right kind each of
\* minLength, maxLength, pattern, url, email, minItems, maxItems on its own,
\* so that a string violating minLength and pattern is reported twice.
C12_ErrorsAccumulate ==
    (pc = "validated" /\ ~Nullish(req.body) /\ ~Faulty(schema, req.body)) =>
        \A i \in 1..Len(schema) :
            LET name == schema[i].name
                rule == schema[i].rule
                v == Get(req.body, name)
            IN /\ (rule.required /\ FieldAbsent(rule, v)) => Reported(name, "REQUIRED_FIELD")
               /\ (~FieldAbsent(rule, v) /\ ~KindMatches(rule, v)) =>
                     Reported(name, "INVALID_TYPE")
               /\ (~FieldAbsent(rule, v) /\ rule.type = "string" /\ v.t = "string") =>
                     /\ (Bounded(rule.minLength) /\ Len(v.s) < rule.minLength.n)
                           => Reported(name, "MIN_LENGTH")
                     /\ (Bounded(rule.maxLength) /\ Len(v.s) > rule.maxLength.n)
                           => Reported(name, "MAX_LENGTH")
                     /\ (rule.pattern # "" /\ ~regexTest(rule.pattern, v.s))
                           => Reported(name, "INVALID_PATTERN")
                     /\ (rule.format = "url" /\ ~isValidUrl(v.s))
                           => Reported(name, "INVALID_URL")
                     /\ (rule.format = "email" /\ ~isValidEmail(v.s))
                           => Reported(name, "INVALID_EMAIL")
               /\ (~FieldAbsent(rule, v) /\ rule.type = "array" /\ v.t = "array") =>
                     /\ (Bounded(rule.minItems) /\ v.len < rule.minItems.n)
                           => Reported(name, "MIN_ITEMS")
                     /\ (Bounded(rule.maxItems) /\ v.len > rule.maxItems.n)
                           => Reported(name, "MAX_ITEMS")

\* two string fields, each shorter than its minimum and not matching its
\* pattern: four errors in one response
C12_Witness ==
    /\ pc = "validated"
    /\ Len(schema) = 2
    /\ Get(req.body, "f") = Str(<<"b">>) /\ Get(req.body, "g") = Str(<<"b">>)
    /\ Len(res) = 1
    /\ res[1].details =
          << Err("f", "MIN_LENGTH"), Err("f", "INVALID_PATTERN"),
             Err("g", "MIN_LENGTH"), Err("g", "INVALID_PATTERN") >>

\* ---- C27 -----------------------------------------------------------------
\* C27: for a present field the kind check runs first: a value that does
\* not match the kind of its rule yields exactly one error for the field,
\* INVALID_TYPE, and no length, pattern, format, item-count or subfield
\* check is applied to it.
C27_KindMismatchOneError ==
    (pc = "validated" /\ ~Nullish(req.body) /\ ~Faulty(schema, req.body)) =>
        \A i \in 1..Len(schema) :
            LET name == schema[i].name
                rule == schema[i].rule
                v == Get(req.body, name)
            IN (~FieldAbsent(rule, v) /\ ~KindMatches(rule, v)) =>
                  /\ nextCalls = 0 /\ Len(res) = 1 /\ res[1].status = 400
                  /\ ErrorsFor(name) = <<Err(name, "INVALID_TYPE")>>

\* an array where an object with two required subfields is expected
C27_Witness ==
    /\ pc = "validated"
    /\ Len(schema) = 1
    /\ schema[1].rule.type = "object"
    /\ schema[1].rule.requiredFields = Subfields(<<"a", "b">>)
    /\ Get(req.body, "f") = Arr(1)
    /\ Len(res) = 1 /\ res[1].status = 400
    /\ res[1].details = <<Err("f", "INVALID_TYPE")>>

\* ---- C28 -----------------------------------------------------------------
\* a finite number that is not NaN
FiniteNumber(v) == v.t = "number" /\ v.n \notin {"NaN", "Infinity", "-Infinity"}

WholeNumber(v) == FiniteNumber(v) /\ v.n \notin {"1.5"}

\* C28: kind 'integer' accepts whole numbers only; kinds 'float' and
\* 'number' accept exactly the finite numbers that are not NaN; NaN, the
\* infinities and non-numeric values are rejected with INVALID_TYPE.
C28_NumericKinds ==
    (pc = "validated" /\ ~Nullish(req.body) /\ ~Faulty(schema, req.body)) =>
        \A i \in 1..Len(schema) :
            LET name == schema[i].name
                rule == schema[i].rule
                v == Get(req.body, name)
            IN ~FieldAbsent(rule, v) =>
                  /\ rule.type = "integer" =>
                        (Reported(name, "INVALID_TYPE") <=> ~WholeNumber(v))
                  /\ rule.type \in {"float", "number"} =>
                        (Reported(name, "INVALID_TYPE") <=> ~FiniteNumber(v))

\* ---- C29 -----------------------------------------------------------------
\* every field with a sensitive name that holds a value (anything but
\* null), at the top of the payload or inside an object of it, holds the
\* placeholder in the logged copy
RedactedCopy(original, logged) ==
    \A k \in DOMAIN original.f :
        /\ (k \in SensitiveFields /\ ~Nullish(original.f[k])) => logged.f[k] = Redacted
        /\ (k \notin SensitiveFields /\ original.f[k].t = "object") =>
              \A n \in DOMAIN original.f[k].f :
                  (n \in SensitiveFields /\ ~Nullish(original.f[k].f[n]))
                      => logged.f[k].f[n] = Redacted

\* C29: whenever the validator logs a payload, every field named apiKey,
\* password, token, secret or key holds '[REDACTED]' in the logged copy,
\* and the body of the request itself is what it was.
C29_SensitiveFieldsRedacted ==
    (pc = "validated" /\ ~Nullish(req.body)) =>
        \A i \in 1..Len(log) : RedactedCopy(req.body, log[i].body)

\* ---- C30 -----------------------------------------------------------------
\* C30: absence is judged differently for required and optional fields.  A
\* required field that is undefined, null or the empty string gets
\* REQUIRED_FIELD and nothing else; an optional field is skipped when
\* undefined or null only; an optional field holding the empty string meets
\* the kind check and, being a string, the length, pattern and format
\* checks.
C30_AbsenceRequiredOptional ==
    (pc = "validated" /\ ~Nullish(req.body) /\ ~Faulty(schema, req.body)) =>
        \A i \in 1..Len(schema) :
            LET name == schema[i].name
                rule == schema[i].rule
                v == Get(req.body, name)
                kinds == {"number", "boolean", "integer", "float", "array", "object"}
            IN /\ (rule.required /\ (Nullish(v) \/ v = Str(<<>>))) =>
                     ErrorsFor(name) = <<Err(name, "REQUIRED_FIELD")>>
               /\ (~rule.required /\ Nullish(v)) => ErrorsFor(name) = <<>>
               /\ (~rule.required /\ v = Str(<<>>)) =>
                     /\ rule.type \in kinds => ErrorsFor(name) = <<Err(name, "INVALID_TYPE")>>
                     /\ rule.type = "string" =>
                           /\ Bounded(rule.minLength) => Reported(name, "MIN_LENGTH")
                           /\ rule.pattern = PatternAs => Reported(name, "INVALID_PATTERN")
                           /\ rule.format = "url" => Reported(name, "INVALID_URL")
                           /\ rule.format = "email" => Reported(name, "INVALID_EMAIL")

\* an optional string field holding the empty string is checked in full
C30_Witness ==
    /\ pc = "validated"
    /\ Len(schema) = 1
    /\ ~schema[1].rule.required /\ schema[1].rule.type = "string"
    /\ Get(req.body, "f") = Str(<<>>)
    /\ Len(res) = 1 /\ res[1].status = 400
    /\ res[1].details =
          << Err("f", "MIN_LENGTH"), Err("f", "INVALID_PATTERN"), Err("f", "INVALID_URL") >>

\* ------------------------------------------------------------------------
\* backend/index.js and the route files: the stages a request meets
\* ------------------------------------------------------------------------
\* routes that mount authenticateRequest
GatedRoutes ==
    {"POST /ask-ai", "POST /ocr", "POST /ocr/batch",
     "POST /pdf/extract", "POST /pdf/ocr", "POST /pdf/analyze"}

OpenRoutes ==
    {"GET /ask-ai/health", "GET /ocr/languages", "GET /pdf/info",
     "GET /health", "GET /health/detailed"}

Routes == GatedRoutes \cup OpenRoutes

\* faulty variant: the validator is mounted ahead of the authenticator
middlewares_validateFirst(rt) ==
    CASE rt = "POST /ocr/batch" -> <<"authenticate">>
      [] rt \in GatedRoutes -> <<"validate", "authenticate">>
      [] OTHER -> <<>>

\* the middleware each router.post / router.get lists before its handler
middlewares(rt) ==
    CASE rt = "POST /ocr/batch" -> <<"authenticate">>
      [] rt \in GatedRoutes -> <<"authenticate", "validate">>
      [] OTHER -> <<>>

UrlRule == [Rule(FALSE, "string") EXCEPT !.format = "url"]
DataRule == [Rule(TRUE, "string") EXCEPT !.minLength = Limit(1)]

ocrSchema ==
    << Field("image", DataRule),
       Field("url", UrlRule),
       Field("language", [Rule(FALSE, "string") EXCEPT !.pattern = PatternLanguage]),
       Field("options", Rule(FALSE, "object")) >>

pdfExtractSchema ==
    << Field("pdfData", DataRule),
       Field("url", UrlRule),
       Field("options", Rule(FALSE, "object")) >>

askAISchema ==
    << Field("question", [Rule(TRUE, "string") EXCEPT !.minLength = Limit(1),
                                                      !.maxLength = Limit(2000)]),
       Field("context", Rule(FALSE, "object")),
       Field("url", UrlRule),
       Field("selectedText", [Rule(FALSE, "string") EXCEPT !.maxLength = Limit(5000)]) >>

routeSchema(rt) ==
    CASE rt = "POST /ocr" -> ocrSchema
      [] rt \in {"POST /pdf/extract", "POST /pdf/ocr", "POST /pdf/analyze"} -> pdfExtractSchema
      [] rt = "POST /ask-ai" -> askAISchema
      [] OTHER -> <<>>

DataImage == <<"d", "a", "t", "a", ":", "i", "m", "a", "g", "e", "/">>
DataPdf == <<"d", "a", "t", "a", ":", "a", "p", "p", "l", "i", "c", "a", "t", "i", "o", "n", "/", "p", "d", "f", ";", "b", "a", "s", "e", "6", "4", ",">>

\* string.split(',')[1] is undefined when the string has no comma, and
\* Buffer.from(undefined, 'base64') throws
hasComma(str) == \E i \in 1..Len(str) : str[i] = ","

Outcome(n, status) == [external |-> n, status |-> status]

\* What a handler can do with a request that reached it: the number of calls
\* it makes to an external service (OpenAI, Tesseract, pdf-parse) and the
\* status it answers with.  The services' answers are not the gateway's to
\* decide, so both success and failure of a call are possible.
handler(rt, r) ==
    CASE rt = "POST /ask-ai" -> {Outcome(1, 200), Outcome(1, 500)}
      [] rt = "GET /ask-ai/health" -> {Outcome(1, 200), Outcome(1, 503)}
      [] rt = "POST /ocr" ->
            LET image == Get(r.body, "image") IN
            IF ~startsWith(image.s, DataImage) THEN {Outcome(0, 400)}
            ELSE IF ~hasComma(image.s) THEN {Outcome(0, 500)}
            ELSE {Outcome(1, 200), Outcome(1, 500)}
      [] rt = "POST /ocr/batch" ->
            LET images == Get(r.body, "images") IN
            IF images.t # "array" THEN {Outcome(0, 400)}
            ELSE IF images.len = 0 \/ images.len > 10 THEN {Outcome(0, 400)}
            ELSE {Outcome(n, 200) : n \in 0..images.len}
      [] rt = "POST /pdf/extract" ->
            LET pdfData == Get(r.body, "pdfData") IN
            IF ~startsWith(pdfData.s, DataPdf) THEN {Outcome(0, 400)}
            ELSE {Outcome(1, 200), Outcome(1, 500)}
      [] rt = "POST /pdf/ocr" -> {Outcome(0, 501)}
      [] rt = "POST /pdf/analyze" ->
            LET pdfData == Get(r.body, "pdfData") IN
            IF ~hasComma(pdfData.s) THEN {Outcome(0, 500)}
            ELSE {Outcome(1, 200), Outcome(1, 500)}
      [] rt = "GET /health/detailed" -> {Outcome(1, 200), Outcome(2, 200), Outcome(1, 503)}
      [] OTHER -> {Outcome(0, 200)}

\* the answer of the express-rate-limit middleware of index.js
GlobalLimitResponse ==
    [status |-> 429, error |-> "Too many requests from this IP, please try again later.",
     message |-> "", retryAfter |-> 0, details |-> NoDetails]

HandlerResponse(status) ==
    [status |-> status, error |-> "", message |-> "", retryAfter |-> 0, details |-> NoDetails]

Ran(stage, passed) == [stage |-> stage, passed |-> passed]

PipelineKeys == {Undefined, Str(Secret123), Str(Secret124)}

PipelineEnvs ==
    [NODE_ENV : {"development", "production"}, API_KEY : {Undefined, Str(Secret123)}]

Field1(k, v) == Obj([x \in {k} |-> v])

PipelineBodies ==
    { EmptyObject,
      Field1("image", Str(DataImage \o <<"x">>)),
      Field1("image", Str(DataImage \o <<",", "x">>)),
      Field1("image", Str(<<"x">>)),
      Field1("image", Num("1")),
      Obj([x \in {"image", "language"} |->
             IF x = "image" THEN Str(DataImage \o <<",", "x">>) ELSE Str(<<"x">>)]),
      Field1("pdfData", Str(DataPdf \o <<"x">>)),
      Field1("pdfData", Str(<<"x">>)),
      Field1("question", Str(<<"a">>)),
      Field1("question", Str(<<>>)),
      Field1("images", Arr(0)),
      Field1("images", Arr(2)),
      Field1("images", Arr(11)) }

Init ==
    /\ LimiterAtRest
    /\ env \in PipelineEnvs
    /\ route \in Routes
    /\ \E k \in PipelineKeys, b \in PipelineBodies :
        req = Request([NoHeaders EXCEPT !.xApiKey = k], EmptyObject, b, Ip1)
    /\ schema = routeSchema(route)
    /\ auth = Undefined
    /\ res = <<>> /\ nextCalls = 0 /\ thrown = FALSE /\ log = <<>>
    /\ resolved = Value(Undefined) /\ pc = "start"
    /\ trace = <<>> /\ external = 0

\* app.use(limiter): the express-rate-limit middleware admits the request or
\* answers 429; its counters are its own
GlobalLimit ==
    /\ pc = "start"
    /\ \E admit \in BOOLEAN :
        /\ trace' = Append(trace, Ran("limiter", admit))
        /\ res' = IF admit THEN res ELSE Append(res, GlobalLimitResponse)
        /\ nextCalls' = IF admit THEN nextCalls + 1 ELSE nextCalls
        /\ pc' = IF admit THEN "route" ELSE "done"
    /\ UNCHANGED <<env, req, auth, schema, thrown, log, resolved, route, external>>
    /\ UNCHANGED limiterVars

\* the stage the router runs next for the request in hand
nextStage ==
    LET chain == middlewares(route) IN
    IF Len(trace) <= Len(chain) THEN chain[Len(trace)] ELSE "handler"

RunStage(stage, out) ==
    /\ Apply(out)
    /\ trace' = Append(trace, Ran(stage, out.next = 1))
    /\ pc' = IF out.next = 1 THEN "route" ELSE "done"
    /\ UNCHANGED <<env, req, schema, resolved, route, external>>
    /\ UNCHANGED limiterVars

RunAuthenticate ==
    /\ pc = "route" /\ nextStage = "authenticate"
    /\ RunStage("authenticate", authenticateRequest(env, req, auth, now))

RunValidate ==
    /\ pc = "route" /\ nextStage = "validate"
    /\ RunStage("validate", validateRequest(schema, req, auth))

RunHandler ==
    /\ pc = "route" /\ nextStage = "handler"
    /\ \E o \in handler(route, req) :
        /\ external' = external + o.external
        /\ res' = Append(res, HandlerResponse(o.status))
    /\ trace' = Append(trace, Ran("handler", TRUE))
    /\ pc' = "done"
    /\ UNCHANGED <<env, req, auth, schema, nextCalls, thrown, log, resolved, route>>
    /\ UNCHANGED limiterVars

Next == GlobalLimit \/ RunAuthenticate \/ RunValidate \/ RunHandler

Spec == Init /\ [][Next]_vars

\* ---- C2 ------------------------------------------------------------------
StageAt(i) == trace[i].stage
Stages == {StageAt(i) : i \in 1..Len(trace)}
Passed(stage) == \E i \in 1..Len(trace) : trace[i] = Ran(stage, TRUE)

\* stage a ran, and did so before stage b
Before(a, b) ==
    \A j \in 1..Len(trace) : StageAt(j) = b => \E i \in 1..(j - 1) : StageAt(i) = a

\* the first failure ends the request: a stage that did not pass is the last
\* one in the trace, and the request has its one response
FirstFailureIsFinal ==
    \A i \in 1..Len(trace) :
        ~trace[i].passed => i = Len(trace) /\ pc = "done" /\ Len(res) = 1

C3_ExternalOnlyAfterGateway ==
    /\ external > 0 => Passed("validate") /\ Passed("authenticate")
    /\ (\E i \in 1..Len(trace) : ~trace[i].passed) => external = 0

====
